---- MODULE Spec2Model ----
(***************************************************************************)
(* Model of trezor_agent/gpg/agent.py: the GPG-agent emulation that        *)
(* speaks the ASSUAN line protocol on a unix socket and delegates ECDSA    *)
(* signing to a hardware device.                                           *)
(*                                                                         *)
(* Strings are Python 2 byte strings; they are modelled as sequences of    *)
(* byte values (0..255), so that splitting, hex decoding, escaping and     *)
(* the S-expression framing are computed the way the code computes them.   *)
(***************************************************************************)
EXTENDS Integers, Sequences, FiniteSets, TLC

----------------------------------------------------------------------------
(* Bounds of the model. *)

\* connections the clients open in one run of the server
MaxConns == 2
\* command lines a client sends on one connection
MaxCmds == 4
\* length of the texts given to serialize
MaxTextLen == 3

----------------------------------------------------------------------------
(* Byte values and literals of the source. *)

\* ' ', the separator of line.split(' ')
SP == 32
\* '%', '\n', '\r': the characters serialize() replaces
PERCENT == 37
LF == 10
CR == 13
\* size argument of util.num2bytes in sig_encode
SigIntSize == 32

\* Python's None, a value no byte string equals
None == <<-1>>
\* outcome of binascii.unhexlify when it raises (TypeError)
HexError == <<-2>>

\* 'OK\n'
OK_LINE == <<79, 75, 10>>
\* 'D 2.1.11\n'
VERSION_LINE == <<68, 32, 50, 46, 49, 46, 49, 49, 10>>
\* 'D TREZOR\n'
AGENT_LINE == <<68, 32, 84, 82, 69, 90, 79, 82, 10>>
\* 'D '
DATA_PREFIX == <<68, 32>>
\* '8', the algorithm identifier pksign asserts
ALGO_8 == <<56>>

RESET == <<82, 69, 83, 69, 84>>
OPTION == <<79, 80, 84, 73, 79, 78>>
HAVEKEY == <<72, 65, 86, 69, 75, 69, 89>>
SETKEYDESC == <<83, 69, 84, 75, 69, 89, 68, 69, 83, 67>>
GETINFO == <<71, 69, 84, 73, 78, 70, 79>>
AGENT_ID == <<65, 71, 69, 78, 84, 95, 73, 68>>
SIGKEY == <<83, 73, 71, 75, 69, 89>>
SETHASH == <<83, 69, 84, 72, 65, 83, 72>>
PKSIGN == <<80, 75, 83, 73, 71, 78>>

\* the set literal of the no-op branch
NoopCommands == {RESET, OPTION, HAVEKEY, SETKEYDESC}

\* '(7:sig-val(5:ecdsa(1:r32:'  ')(1:s32:'  ')))\n' : the pieces of the
\* format string of sig_encode around its two {} fields
SigHead == <<40, 55, 58, 115, 105, 103, 45, 118, 97, 108, 40, 53, 58, 101,
             99, 100, 115, 97, 40, 49, 58, 114, 51, 50, 58>>
SigMid == <<41, 40, 49, 58, 115, 51, 50, 58>>
SigTail == <<41, 41, 41, 10>>

----------------------------------------------------------------------------
(* Pure functions. *)

\* index of the first occurrence of byte c in s, 0 when absent
IndexOf(s, c) ==
    IF \E i \in 1..Len(s) : s[i] = c
    THEN CHOOSE i \in 1..Len(s) : s[i] = c /\ \A j \in 1..(i-1) : s[j] # c
    ELSE 0

\* line.split(' '): cut at every single space; consecutive spaces give
\* empty pieces, and a line without a space is one piece
RECURSIVE split(_)
split(line) ==
    LET i == IndexOf(line, SP)
    IN  IF i = 0 THEN <<line>>
        ELSE <<SubSeq(line, 1, i-1)>> \o split(SubSeq(line, i+1, Len(line)))

\* parts[0]
command(line) == Head(split(line))
\* parts[1:]
args(line) == Tail(split(line))

\* value of one hexadecimal digit character, -1 for any other character
HexVal(c) ==
    IF c \in 48..57 THEN c - 48
    ELSE IF c \in 97..102 THEN c - 87
    ELSE IF c \in 65..70 THEN c - 55
    ELSE -1

\* binascii.unhexlify: two hex digits (either case) per byte; raises on
\* None, on an odd length and on a non-hex character
unhexlify(h) ==
    IF h = None THEN HexError
    ELSE IF Len(h) % 2 # 0 THEN HexError
    ELSE IF \E i \in 1..Len(h) : HexVal(h[i]) < 0 THEN HexError
    ELSE [i \in 1..(Len(h) \div 2) |-> 16 * HexVal(h[2*i-1]) + HexVal(h[2*i])]

\* one uppercase hexadecimal digit character
HexDigitUpper(n) == IF n < 10 THEN 48 + n ELSE 55 + n

\* '%{:02X}'.format(ord(c))
PercentCode(c) == <<PERCENT, HexDigitUpper(c \div 16), HexDigitUpper(c % 16)>>

\* replace that stops after the first occurrence (data.replace(c, rep, 1))
replaceFirst(data, c, rep) ==
    IF \E i \in 1..Len(data) : data[i] = c
    THEN LET i == CHOOSE i \in 1..Len(data) :
                      data[i] = c /\ \A j \in 1..(i-1) : data[j] # c
         IN  SubSeq(data, 1, i-1) \o rep \o SubSeq(data, i+1, Len(data))
    ELSE data

\* data.replace(c, rep): every occurrence of byte c, left to right
RECURSIVE replace(_, _, _)
replace(data, c, rep) ==
    IF data = << >> THEN << >>
    ELSE (IF Head(data) = c THEN rep ELSE <<Head(data)>>)
         \o replace(Tail(data), c, rep)

\* SerializeChars with '%' replaced last
SerializeCharsPercentLast == <<LF, CR, PERCENT>>

\* the list the loop of serialize iterates over, in its order
SerializeChars == <<PERCENT, LF, CR>>

\* the loop of serialize from its k-th iteration on
RECURSIVE serializeFrom(_, _)
serializeFrom(data, k) ==
    IF k > Len(SerializeChars) THEN data
    ELSE serializeFrom(replace(data, SerializeChars[k],
                               PercentCode(SerializeChars[k])), k + 1)

serialize(data) == serializeFrom(data, 1)

\* util.num2bytes(value, size): big-endian, exactly size bytes
RECURSIVE num2bytes(_, _)
num2bytes(value, size) ==
    IF size = 0 THEN << >>
    ELSE Append(num2bytes(value \div 256, size - 1), value % 256)

\* sig_encode without the two serialize calls
sig_encodeRaw(r, s) ==
    SigHead \o num2bytes(r, SigIntSize)
            \o SigMid \o num2bytes(s, SigIntSize) \o SigTail

sig_encode(r, s) ==
    SigHead \o serialize(num2bytes(r, SigIntSize))
            \o SigMid \o serialize(num2bytes(s, SigIntSize)) \o SigTail

----------------------------------------------------------------------------
(* Inputs: what the collaborators and the clients can supply. *)

\* a command token followed by one / two space-separated arguments
Line1(c, a) == c \o <<SP>> \o a
Line2(c, a, b) == c \o <<SP>> \o a \o <<SP>> \o b

\* 'ab' 'AB' 'cd' 'a': hex keygrips 0xAB (either case), 0xCD, and an
\* odd-length one
HexAb == <<97, 98>>
HexAB == <<65, 66>>
HexCd == <<99, 100>>
HexOdd == <<97>>
\* '1234' '00ff' 'xy': two hex digests and a string that is not hex
Hex1234 == <<49, 50, 51, 52>>
Hex00ff == <<48, 48, 102, 102>>
NotHex == <<120, 121>>
\* '9', an algorithm identifier other than '8'
ALGO_9 == <<57>>

\* lines whose command token is recognized and whose arity is accepted
GoodLines ==
    { RESET, Line1(OPTION, <<120>>), Line1(HAVEKEY, HexAb),
      Line2(SETKEYDESC, <<120>>, <<120>>),
      Line1(GETINFO, <<118>>), AGENT_ID,
      Line1(SIGKEY, HexAb), Line1(SIGKEY, HexAB), Line1(SIGKEY, HexCd),
      Line1(SIGKEY, HexOdd),
      Line2(SETHASH, ALGO_8, Hex1234), Line2(SETHASH, ALGO_8, Hex00ff),
      Line2(SETHASH, ALGO_9, Hex1234), Line2(SETHASH, ALGO_8, NotHex),
      PKSIGN }

\* lines with a wrong argument count: 'SIGKEY', 'SIGKEY ab cd',
\* 'SIGKEY  ab' (two spaces), 'SETHASH 8', 'SETHASH 8 1234 x',
\* 'SETHASH 8  1234' (two spaces)
ArityLines ==
    { SIGKEY, Line2(SIGKEY, HexAb, HexCd), Line2(SIGKEY, << >>, HexAb),
      Line1(SETHASH, ALGO_8), Line2(SETHASH, ALGO_8, Hex1234) \o <<SP, 120>>,
      Line2(SETHASH, ALGO_8, << >>) \o <<SP>> \o Hex1234 }

\* lines whose command token is not recognized: 'FOO', '', 'pksign',
\* ' PKSIGN' (leading space: the token is empty)
UnknownLines ==
    { <<70, 79, 79>>, << >>, <<112, 107, 115, 105, 103, 110>>,
      <<SP>> \o PKSIGN }

Lines == GoodLines \cup ArityLines \cup UnknownLines

\* keygrip (binary) of the key the registry exports for the default
\* identity; None when the export fails
Registries == { <<171>>, None }

\* (r, s) pairs the signing device can return; the bytes 0x25, 0x0A and
\* 0x0D occur in them
SigPairs == { <<0, 0>>, <<37, 10>>, <<3338, 9485>> }

----------------------------------------------------------------------------
(* State. *)

VARIABLES
    spc,       \* where main() is: "accept", "handle", "signing" (blocked in
               \* f.conn.sign), "stopped" (main returned), "crashed"
    sockOpen,  \* the listening socket is bound
    pending,   \* clients that connected and are not accepted yet
    nconn,     \* connections accepted so far
    connOpen,  \* the accepted connection is open
    keygrip,   \* locals of handle_connection
    digest,
    algo,
    capOpen,   \* signing capabilities (encode.Factory) open
    registry,  \* what keyring.export_public_key resolves
    exc,       \* exception that left handle_connection, "none" if none
    \* history of the current connection
    nread,     \* lines recvline returned
    wire,      \* events since the last line was read, that read included
               \* (since the accept, before the first read): lines sent
               \* and read, end-of-file, calls to and returns from the
               \* collaborators, close
    lastSigkey,  \* last SIGKEY / SETHASH line that was processed to its OK
    lastSethash,
    nsigned,   \* PKSIGN commands that were answered with a signature
    \* the wire codec taken alone
    codec      \* an input text, an input (r, s), and what serialize and
               \* sig_encode return for them (None before the call)

session == <<keygrip, digest, algo>>
history == <<nread, wire, lastSigkey, lastSethash, nsigned>>
vars == <<spc, sockOpen, pending, nconn, connOpen, keygrip, digest, algo,
          capOpen, registry, exc, nread, wire, lastSigkey, lastSethash,
          nsigned, codec>>

Ev(k, d) == [kind |-> k, data |-> d]
EvSend(d) == Ev("send", d)
EvRecv(d) == Ev("recv", d)
EvEof == Ev("eof", << >>)
EvRegistry == Ev("registry", << >>)
EvOpen == Ev("open", << >>)
EvSign(d) == Ev("sign", d)
EvReturn(rs) == Ev("return", rs)
EvRelease == Ev("release", << >>)
EvClose == Ev("close", << >>)

\* the events of kind k in w, in order
Only(w, k) == SelectSeq(w, LAMBDA e : e.kind = k)
\* the lines sent in w, in order
Sent(w) == [i \in 1..Len(Only(w, "send")) |-> Only(w, "send")[i].data]

\* the codec variable of a run of the server, where it plays no part
CodecIdle == [text |-> << >>, escaped |-> None, r |-> 0, s |-> 0, sig |-> None]

Init ==
    /\ spc = "accept"
    /\ sockOpen = TRUE
    /\ pending = 0
    /\ nconn = 0
    /\ connOpen = FALSE
    /\ keygrip = None
    /\ digest = None
    /\ algo = None
    /\ capOpen = 0
    /\ registry \in Registries
    /\ exc = "none"
    /\ nread = 0
    /\ wire = << >>
    /\ lastSigkey = None
    /\ lastSethash = None
    /\ nsigned = 0
    /\ codec = CodecIdle

----------------------------------------------------------------------------
(* Operations. *)

\* the dispatch of handle_connection: the branch a line takes
Branch(line) ==
    IF command(line) \in NoopCommands THEN "noop"
    ELSE IF command(line) = GETINFO THEN "getinfo"
    ELSE IF command(line) = AGENT_ID THEN "agent_id"
    ELSE IF command(line) = SIGKEY THEN "sigkey"
    ELSE IF command(line) = SETHASH THEN "sethash"
    ELSE IF command(line) = PKSIGN THEN "pksign"
    ELSE "unknown"

LinesOf(b) == {line \in Lines : Branch(line) = b}
NoopLines == LinesOf("noop")
GetInfoLines == LinesOf("getinfo")
AgentIdLines == LinesOf("agent_id")
SigKeyLines == LinesOf("sigkey")
SetHashLines == LinesOf("sethash")
PksignLines == LinesOf("pksign")
UnknownCmdLines == LinesOf("unknown")

\* a client connects to the socket path
Connect ==
    /\ sockOpen
    /\ nconn + pending < MaxConns
    /\ pending' = pending + 1
    /\ UNCHANGED <<spc, sockOpen, nconn, connOpen, session, capOpen,
                   registry, exc, history, codec>>

\* Greeting without the sendall before the loop
GreetingMissing == << >>

\* what handle_connection sends before its loop
Greeting == <<EvSend(OK_LINE)>>

\* Accept with keygrip, digest and algo kept from the previous connection
\* (module-level state instead of locals)
AcceptKeepsLocals ==
    /\ spc = "accept"
    /\ pending > 0
    /\ pending' = pending - 1
    /\ nconn' = nconn + 1
    /\ connOpen' = TRUE
    /\ nread' = 0
    /\ wire' = Greeting
    /\ lastSigkey' = None
    /\ lastSethash' = None
    /\ spc' = "handle"
    /\ nsigned' = 0
    /\ UNCHANGED <<sockOpen, session, capOpen, registry, exc, codec>>

\* Accept with the keygrip kept from the previous connection
AcceptKeepsKeygrip ==
    /\ spc = "accept"
    /\ pending > 0
    /\ pending' = pending - 1
    /\ nconn' = nconn + 1
    /\ connOpen' = TRUE
    /\ digest' = None
    /\ algo' = None
    /\ nread' = 0
    /\ wire' = Greeting
    /\ lastSigkey' = None
    /\ lastSethash' = None
    /\ nsigned' = 0
    /\ spc' = "handle"
    /\ UNCHANGED <<sockOpen, keygrip, capOpen, registry, exc, codec>>

\* yield_connections: sock.accept(); main enters handle_connection, which
\* clears its locals and sends the greeting
Accept ==
    /\ spc = "accept"
    /\ pending > 0
    /\ pending' = pending - 1
    /\ nconn' = nconn + 1
    /\ connOpen' = TRUE
    /\ keygrip' = None
    /\ digest' = None
    /\ algo' = None
    /\ nread' = 0
    /\ wire' = Greeting
    /\ lastSigkey' = None
    /\ lastSethash' = None
    /\ spc' = "handle"
    /\ nsigned' = 0
    /\ UNCHANGED <<sockOpen, capOpen, registry, exc, codec>>

\* handle_connection is blocked in keyring.recvline and the client sends
\* one more line
Reading ==
    /\ spc = "handle"
    /\ nread < MaxCmds
    /\ nread' = nread + 1

\* exception e leaves handle_connection after the events w: closing(conn)
\* closes the connection; main catches EOFError and breaks out of the
\* loop, anything else propagates out of main; either way the socket
\* context manager releases the listening socket
Raise(e, w) ==
    /\ wire' = Append(w, EvClose)
    /\ connOpen' = FALSE
    /\ sockOpen' = FALSE
    /\ exc' = e
    /\ spc' = IF e = "EOFError" THEN "stopped" ELSE "crashed"
    /\ UNCHANGED <<pending, nconn, session, registry, lastSigkey,
                   lastSethash, nsigned, codec>>

\* the end of a loop iteration after the events w: conn.sendall('OK\n')
ReplyOK(w) ==
    /\ wire' = Append(w, EvSend(OK_LINE))
    /\ UNCHANGED <<spc, sockOpen, pending, nconn, connOpen, capOpen,
                   registry, exc, nsigned, codec>>

\* the client disconnects: recvline raises EOFError
RecvEOF ==
    /\ spc = "handle"
    /\ Raise("EOFError", Append(wire, EvEof))
    /\ UNCHANGED <<nread, capOpen>>

\* CmdNoop in which RESET clears the staged key, digest and algorithm
CmdNoopResetClears ==
    /\ Reading
    /\ \E line \in NoopLines :
        /\ ReplyOK(<<EvRecv(line)>>)
        /\ IF command(line) = RESET
           THEN keygrip' = None /\ digest' = None /\ algo' = None
           ELSE UNCHANGED session
    /\ UNCHANGED <<lastSigkey, lastSethash>>

CmdNoop ==
    /\ Reading
    /\ \E line \in NoopLines : ReplyOK(<<EvRecv(line)>>)
    /\ UNCHANGED <<session, lastSigkey, lastSethash>>

\* CmdGetInfo with an OK sent inside the branch as well
CmdGetInfoTwoOK ==
    /\ Reading
    /\ \E line \in GetInfoLines :
           ReplyOK(<<EvRecv(line), EvSend(VERSION_LINE), EvSend(OK_LINE)>>)
    /\ UNCHANGED <<session, lastSigkey, lastSethash>>

CmdGetInfo ==
    /\ Reading
    /\ \E line \in GetInfoLines :
           ReplyOK(<<EvRecv(line), EvSend(VERSION_LINE)>>)
    /\ UNCHANGED <<session, lastSigkey, lastSethash>>

CmdAgentId ==
    /\ Reading
    /\ \E line \in AgentIdLines :
           ReplyOK(<<EvRecv(line), EvSend(AGENT_LINE)>>)
    /\ UNCHANGED <<session, lastSigkey, lastSethash>>

\* CmdSigKey that drops the staged digest and algorithm
CmdSigKeyClearsHash ==
    /\ Reading
    /\ \E line \in SigKeyLines :
        /\ Len(args(line)) = 1
        /\ keygrip' = args(line)[1]
        /\ lastSigkey' = line
        /\ ReplyOK(<<EvRecv(line)>>)
    /\ digest' = None
    /\ algo' = None
    /\ UNCHANGED lastSethash

\* keygrip, = args
CmdSigKey ==
    /\ Reading
    /\ \E line \in SigKeyLines :
        /\ Len(args(line)) = 1
        /\ keygrip' = args(line)[1]
        /\ lastSigkey' = line
        /\ ReplyOK(<<EvRecv(line)>>)
    /\ UNCHANGED <<digest, algo, lastSethash>>

\* CmdSetHash that takes the first two of two or more arguments
CmdSetHashLenient ==
    /\ Reading
    /\ \E line \in SetHashLines :
        /\ Len(args(line)) >= 2
        /\ algo' = args(line)[1]
        /\ digest' = args(line)[2]
        /\ lastSethash' = line
        /\ ReplyOK(<<EvRecv(line)>>)
    /\ UNCHANGED <<keygrip, lastSigkey>>

\* CmdSetHash that keeps a digest already staged
CmdSetHashKeepsFirst ==
    /\ Reading
    /\ \E line \in SetHashLines :
        /\ Len(args(line)) = 2
        /\ algo' = args(line)[1]
        /\ digest' = IF digest = None THEN args(line)[2] ELSE digest
        /\ lastSethash' = line
        /\ ReplyOK(<<EvRecv(line)>>)
    /\ UNCHANGED <<keygrip, lastSigkey>>

\* algo, digest = args
CmdSetHash ==
    /\ Reading
    /\ \E line \in SetHashLines :
        /\ Len(args(line)) = 2
        /\ algo' = args(line)[1]
        /\ digest' = args(line)[2]
        /\ lastSethash' = line
        /\ ReplyOK(<<EvRecv(line)>>)
    /\ UNCHANGED <<keygrip, lastSigkey>>

\* the tuple unpacking of SIGKEY / SETHASH raises ValueError
CmdArityFault ==
    /\ Reading
    /\ \E line \in SigKeyLines \cup SetHashLines :
        /\ \/ line \in SigKeyLines /\ Len(args(line)) # 1
           \/ line \in SetHashLines /\ Len(args(line)) # 2
        /\ Raise("ValueError", <<EvRecv(line)>>)
    /\ UNCHANGED capOpen

\* CmdUnknown that raises instead of returning
CmdUnknownRaises ==
    /\ Reading
    /\ \E line \in UnknownCmdLines : Raise("ValueError", <<EvRecv(line)>>)
    /\ UNCHANGED capOpen

\* CmdUnknown without the return: the loop goes on to its sendall('OK\n')
CmdUnknownFallsThrough ==
    /\ Reading
    /\ \E line \in UnknownCmdLines : ReplyOK(<<EvRecv(line)>>)
    /\ UNCHANGED <<session, lastSigkey, lastSethash>>

\* else branch: log.error and return; closing(conn) closes the connection
\* and the for loop of main asks for the next connection
CmdUnknown ==
    /\ Reading
    /\ \E line \in UnknownCmdLines : wire' = <<EvRecv(line), EvClose>>
    /\ connOpen' = FALSE
    /\ spc' = "accept"
    /\ UNCHANGED <<sockOpen, pending, nconn, session, capOpen, registry,
                   exc, lastSigkey, lastSethash, nsigned, codec>>

----------------------------------------------------------------------------
(* PKSIGN: handle_connection calls pksign(keygrip, digest, algo). *)

\* AlgoAccepted that only requires an algorithm to be staged
AlgoAcceptedAnySet(a) == a # None

\* assert algo == '8'
AlgoAccepted(a) == a = ALGO_8

\* KeygripMatches that decodes the keygrip and does not compare it
KeygripOnlyDecoded(pubkeyKeygrip, k) == unhexlify(k) # HexError

\* assert f.pubkey.keygrip == binascii.unhexlify(keygrip)
KeygripMatches(pubkeyKeygrip, k) ==
    /\ unhexlify(k) # HexError
    /\ pubkeyKeygrip = unhexlify(k)

\* the first assert fails: AssertionError before anything else is done
PksignAlgoFault ==
    /\ Reading
    /\ ~AlgoAccepted(algo)
    /\ \E line \in PksignLines : Raise("AssertionError", <<EvRecv(line)>>)
    /\ UNCHANGED capOpen

\* keyring.export_public_key / decode.load_public_key fail: no key for the
\* default identity
PksignRegistryFault ==
    /\ Reading
    /\ AlgoAccepted(algo)
    /\ registry = None
    /\ \E line \in PksignLines :
           Raise("RegistryError", <<EvRecv(line), EvRegistry>>)
    /\ UNCHANGED capOpen

\* the factory is open and the keygrip assert fails (AssertionError), or
\* unhexlify(keygrip) raises (TypeError); closing(f) releases the factory
PksignKeygripFault ==
    /\ Reading
    /\ AlgoAccepted(algo)
    /\ registry # None
    /\ ~KeygripMatches(registry, keygrip)
    /\ \E line \in PksignLines :
           Raise(IF unhexlify(keygrip) = HexError THEN "TypeError"
                 ELSE "AssertionError",
                 <<EvRecv(line), EvRegistry, EvOpen, EvRelease>>)
    /\ UNCHANGED capOpen

\* unhexlify(digest) raises (TypeError); closing(f) releases the factory
PksignDigestFault ==
    /\ Reading
    /\ AlgoAccepted(algo)
    /\ registry # None
    /\ KeygripMatches(registry, keygrip)
    /\ unhexlify(digest) = HexError
    /\ \E line \in PksignLines :
           Raise("TypeError", <<EvRecv(line), EvRegistry, EvOpen, EvRelease>>)
    /\ UNCHANGED capOpen

\* f.conn.sign(binascii.unhexlify(digest)) is called and blocks on the
\* device
PksignCallSign ==
    /\ Reading
    /\ AlgoAccepted(algo)
    /\ registry # None
    /\ KeygripMatches(registry, keygrip)
    /\ unhexlify(digest) # HexError
    /\ \E line \in PksignLines :
           wire' = <<EvRecv(line), EvRegistry, EvOpen,
                     EvSign(unhexlify(digest))>>
    /\ capOpen' = capOpen + 1
    /\ spc' = "signing"
    /\ UNCHANGED <<sockOpen, pending, nconn, connOpen, session, registry,
                   exc, lastSigkey, lastSethash, nsigned, codec>>

\* 'D ' + sig
DataLine(sig) == DATA_PREFIX \o sig

\* SignReturn that clears the staged digest and algorithm once they are
\* used
SignReturnConsumes ==
    /\ spc = "signing"
    /\ \E rs \in SigPairs :
           wire' = wire \o <<EvReturn(rs), EvRelease,
                             EvSend(DataLine(sig_encode(rs[1], rs[2]))),
                             EvSend(OK_LINE)>>
    /\ capOpen' = capOpen - 1
    /\ spc' = "handle"
    /\ nsigned' = nsigned + 1
    /\ digest' = None
    /\ algo' = None
    /\ UNCHANGED <<sockOpen, pending, nconn, connOpen, keygrip, registry,
                   exc, nread, lastSigkey, lastSethash, codec>>

\* the device returns (r, s): sig_encode, closing(f), then
\* conn.sendall('D ' + sig) and the OK of the loop
SignReturn ==
    /\ spc = "signing"
    /\ \E rs \in SigPairs :
           wire' = wire \o <<EvReturn(rs), EvRelease,
                             EvSend(DataLine(sig_encode(rs[1], rs[2]))),
                             EvSend(OK_LINE)>>
    /\ capOpen' = capOpen - 1
    /\ spc' = "handle"
    /\ nsigned' = nsigned + 1
    /\ UNCHANGED <<sockOpen, pending, nconn, connOpen, session, registry,
                   exc, nread, lastSigkey, lastSethash, codec>>

\* SignFail without the with block: f.close() is skipped by the exception
SignFailLeaks ==
    /\ spc = "signing"
    /\ Raise("BackendError", wire)
    /\ UNCHANGED <<nread, capOpen>>

\* the device is unreachable or times out: f.conn.sign raises; closing(f)
\* releases the factory and the exception leaves handle_connection
SignFail ==
    /\ spc = "signing"
    /\ Raise("BackendError", Append(wire, EvRelease))
    /\ capOpen' = capOpen - 1
    /\ UNCHANGED nread

----------------------------------------------------------------------------

Next ==
    \/ Connect
    \/ Accept
    \/ RecvEOF
    \/ CmdNoop
    \/ CmdGetInfo
    \/ CmdAgentId
    \/ CmdSigKey
    \/ CmdSetHash
    \/ CmdArityFault
    \/ CmdUnknown
    \/ PksignAlgoFault
    \/ PksignRegistryFault
    \/ PksignKeygripFault
    \/ PksignDigestFault
    \/ PksignCallSign
    \/ SignReturn
    \/ SignFail

Spec == Init /\ [][Next]_vars

----------------------------------------------------------------------------
(* The wire codec alone: serialize and sig_encode applied to inputs drawn  *)
(* from bounded sets, the server not running.                              *)

\* bytes of the texts: '%', '\n', '\r', '2', 'A'
TextBytes == {PERCENT, LF, CR, 50, 65}
Texts == UNION {[1..n -> TextBytes] : n \in 0..MaxTextLen}

\* values of r and s: 0, 0x25, 0x0A, 0x0D, 0x0A0A, 0x250D, 0x25000000 and
\* 2^31 - 1
SigValues == {0, 37, 10, 13, 2570, 9485, 620756992, 2147483647}

serverVars == <<spc, sockOpen, pending, nconn, connOpen, keygrip, digest,
                algo, capOpen, registry, exc, nread, wire, lastSigkey,
                lastSethash, nsigned>>

CodecInit ==
    /\ spc = "accept"
    /\ sockOpen = TRUE
    /\ pending = 0
    /\ nconn = 0
    /\ connOpen = FALSE
    /\ keygrip = None
    /\ digest = None
    /\ algo = None
    /\ capOpen = 0
    /\ registry = None
    /\ exc = "none"
    /\ nread = 0
    /\ wire = << >>
    /\ lastSigkey = None
    /\ lastSethash = None
    /\ nsigned = 0
    /\ \/ \E t \in Texts :
              codec = [text |-> t, escaped |-> None, r |-> 0, s |-> 0,
                       sig |-> None]
       \/ \E r \in SigValues, s \in SigValues :
              codec = [text |-> << >>, escaped |-> None, r |-> r, s |-> s,
                       sig |-> None]

\* serialize(text)
Escape ==
    /\ codec.escaped = None
    /\ codec' = [codec EXCEPT !.escaped = serialize(codec.text)]
    /\ UNCHANGED serverVars

\* sig_encode(r, s)
EncodeSignature ==
    /\ codec.sig = None
    /\ codec' = [codec EXCEPT !.sig = sig_encode(codec.r, codec.s)]
    /\ UNCHANGED serverVars

CodecNext ==
    \/ Escape
    \/ EncodeSignature

CodecSpec == CodecInit /\ [][CodecNext]_vars

TypeOK ==
    /\ spc \in {"accept", "handle", "signing", "stopped", "crashed"}
    /\ sockOpen \in BOOLEAN
    /\ pending \in 0..MaxConns
    /\ nconn \in 0..MaxConns
    /\ connOpen \in BOOLEAN
    /\ capOpen \in 0..1
    /\ registry \in Registries
    /\ nread \in 0..MaxCmds
    /\ nsigned \in 0..MaxCmds

----------------------------------------------------------------------------
(* Properties. *)

\* s begins with p
StartsWith(s, p) == Len(s) >= Len(p) /\ SubSeq(s, 1, Len(p)) = p

\* 'D (7:sig-val', the beginning of a signature data line
SigLineStart == <<68, 32, 40, 55, 58, 115, 105, 103, 45, 118, 97, 108>>
IsSignatureLine(d) == StartsWith(d, SigLineStart)
\* a data line: 'D ' ... '\n'
IsDataLine(d) == StartsWith(d, DATA_PREFIX) /\ d[Len(d)] = LF

\* the line whose processing wire records was dispatched to branch b
CycleOf(b) ==
    /\ wire # << >>
    /\ wire[1].kind = "recv"
    /\ Branch(wire[1].data) = b

\* some event of kind k is in wire
Has(k) == \E i \in 1..Len(wire) : wire[i].kind = k

SignatureSent ==
    \E i \in 1..Len(wire) :
        wire[i].kind = "send" /\ IsSignatureLine(wire[i].data)

\* C1: a signature data line is sent only if a SIGKEY and a SETHASH were
\* processed earlier in the same session; a PKSIGN issued before any
\* SETHASH or before any SIGKEY sends neither a signature nor an OK.
C1_SignatureNeedsStaging ==
    /\ SignatureSent => (lastSigkey # None /\ lastSethash # None)
    /\ (CycleOf("pksign") /\ (lastSigkey = None \/ lastSethash = None))
           => Sent(wire) = << >>

\* a signature was sent on the second connection of the run
C1_Witness == SignatureSent /\ nconn = 2

\* C2: when PKSIGN is processed and the staged algorithm is not '8' (unset
\* included), the registry is not consulted, no capability is opened, the
\* backend is not asked to sign and no data line is sent.
C2_WrongAlgoRejectedFirst ==
    (CycleOf("pksign") /\ algo # ALGO_8)
        => /\ ~Has("registry")
           /\ ~Has("open")
           /\ ~Has("sign")
           /\ capOpen = 0
           /\ \A i \in 1..Len(Sent(wire)) : ~IsDataLine(Sent(wire)[i])

\* PKSIGN was processed with the algorithm '9' and a key staged
C2_Witness == CycleOf("pksign") /\ algo = ALGO_9 /\ keygrip = HexAb

\* C3: the backend is asked to sign only when the keygrip of the key the
\* registry resolved equals the hex-decoded identifier of the SIGKEY
\* staged in the session; on a mismatch no digest reaches the backend and
\* no signature line is sent.
C3_SignOnlyForMatchingKeygrip ==
    /\ Has("sign") =>
           /\ lastSigkey # None
           /\ registry = unhexlify(args(lastSigkey)[1])
    /\ (CycleOf("pksign") /\ registry # unhexlify(keygrip))
           => (~Has("sign") /\ ~SignatureSent)

\* the backend was asked to sign after 'SIGKEY AB', whose text differs
\* from the lower-case hex of the registry keygrip
C3_Witness == Has("sign") /\ lastSigkey = Line1(SIGKEY, HexAB)

\* C4: when PKSIGN succeeds, the digest handed to the backend is the
\* hex-decoded digest argument of the most recent SETHASH of the session,
\* and the reply is one data line 'D ' + sig_encode(r, s) of the (r, s)
\* the backend returned, immediately followed by 'OK'.
C4_PksignSignsLatestDigest ==
    Has("return") =>
        LET rs == Only(wire, "return")[1].data
            reply == DATA_PREFIX \o sig_encode(rs[1], rs[2])
        IN  /\ lastSethash # None
            /\ Len(Only(wire, "sign")) = 1
            /\ Only(wire, "sign")[1].data = unhexlify(args(lastSethash)[2])
            /\ Sent(wire) = <<reply, OK_LINE>>
            /\ \E i \in 1..(Len(wire) - 1) :
                   wire[i] = EvSend(reply) /\ wire[i+1] = EvSend(OK_LINE)

\* PKSIGN succeeded as the fourth command of a session, over the digest
\* 00ff, with a signature whose bytes need escaping
C4_Witness ==
    /\ Has("return")
    /\ nread = 4
    /\ Only(wire, "sign")[1].data = <<0, 255>>
    /\ Only(wire, "return")[1].data = <<37, 10>>


\* C5: on every accepted connection the greeting 'OK' is the first event:
\* until the first line is read nothing else has been sent and nothing
\* has been read.
C5_GreetingFirst ==
    (nconn > 0 /\ nread = 0)
        => /\ wire # << >>
           /\ wire[1] = EvSend(OK_LINE)
           /\ Sent(wire) = <<OK_LINE>>
           /\ ~Has("recv")

\* the second connection was accepted and no line was read from it yet
C5_Witness == nconn = 2 /\ nread = 0 /\ connOpen /\ spc = "handle"

\* C6: every recognized command processed without a fault gets exactly
\* one 'OK' between its read and the next read; GETINFO, AGENT_ID and
\* PKSIGN send exactly one data line immediately before that OK, the
\* other six commands send no data line.
C6_OneStatusPerCommand ==
    (spc = "handle" /\ nread > 0)
        => LET n == Len(wire)
               b == Branch(wire[1].data)
           IN  /\ wire[1].kind = "recv"
               /\ b # "unknown"
               /\ wire[n] = EvSend(OK_LINE)
               /\ IF b \in {"getinfo", "agent_id", "pksign"}
                  THEN /\ Len(Sent(wire)) = 2
                       /\ wire[n-1].kind = "send"
                       /\ IsDataLine(wire[n-1].data)
                       /\ wire[n-1].data # OK_LINE
                  ELSE Sent(wire) = <<OK_LINE>>

\* GETINFO was processed and the handler waits for the next line
C6_Witness == spc = "handle" /\ CycleOf("getinfo")

\* C7: RESET, OPTION, HAVEKEY and SETKEYDESC, with any arguments and in
\* any session state, leave keygrip, digest and algo unchanged and emit
\* one 'OK' line and nothing else.
C7_NoopsChangeNothing ==
    [][ (nread' = nread + 1 /\ Branch(wire'[1].data) = "noop")
            => /\ session' = session
               /\ wire' = <<EvRecv(wire'[1].data), EvSend(OK_LINE)>> ]_vars

\* RESET was processed with a key, a digest and an algorithm staged
C7_Witness ==
    /\ wire # << >>
    /\ wire[1] = EvRecv(RESET)
    /\ keygrip # None
    /\ digest # None
    /\ algo # None

\* C8: a line whose command token is not recognized ends the session and
\* closes the connection with no reply: after that line nothing is sent
\* and nothing more is read on the connection.
C8_UnknownCommandClosesSilently ==
    /\ [](CycleOf("unknown")
            => (wire = <<EvRecv(wire[1].data), EvClose>> /\ ~connOpen))
    /\ [][ (CycleOf("unknown") /\ nconn' = nconn)
               => (wire' = wire /\ nread' = nread /\ ~connOpen') ]_vars

\* 'FOO' was read after an earlier command had been acknowledged
C8_Witness == CycleOf("unknown") /\ wire[1].data = <<70, 79, 79>> /\ nread = 3

\* C9: a client disconnect during a read is a normal end of the session:
\* the connection is closed and the server loop goes on accepting; the
\* loop never terminates because of a disconnect.
C9_DisconnectKeepsServing ==
    Has("eof") => (~connOpen /\ sockOpen /\ spc = "accept")

\* C10: a failure of the backend sign operation aborts only the current
\* connection: no signature and no OK is sent for that PKSIGN, the
\* connection is closed, and the server goes on accepting connections.
C10_BackendFaultContained ==
    exc = "BackendError"
        => /\ Sent(wire) = << >>
           /\ ~connOpen
           /\ sockOpen
           /\ spc = "accept"


\* C11: every session starts with keygrip, digest and algo unset, and a
\* PKSIGN uses only the key identifier and the digest staged by the
\* SIGKEY and SETHASH of its own session, never those of another
\* connection.
C11_SessionsIsolated ==
    /\ (nconn > 0 /\ nread = 0) => session = <<None, None, None>>
    /\ Has("sign") =>
           /\ lastSigkey # None
           /\ lastSethash # None
           /\ keygrip = args(lastSigkey)[1]
           /\ digest = args(lastSethash)[2]
           /\ Only(wire, "sign")[1].data = unhexlify(args(lastSethash)[2])
           /\ registry = unhexlify(args(lastSigkey)[1])

\* the backend was asked to sign on the second connection, over the
\* digest 00ff staged on it
C11_Witness ==
    /\ nconn = 2
    /\ Has("sign")
    /\ lastSethash = Line2(SETHASH, ALGO_8, Hex00ff)

\* C12: an open connection does not block the accept loop: while a
\* connection is open (idle or stalled in the backend), a client that
\* connects can be accepted and greeted without the first one ending.
C12_OpenConnectionDoesNotBlockAccept ==
    (connOpen /\ pending > 0) => ENABLED Accept

\* C15: every signing capability that was opened is released exactly once
\* before the PKSIGN handling ends, on every path; none is open when the
\* next command is read or the session has ended.
C15_CapabilityReleased ==
    /\ capOpen = Len(Only(wire, "open")) - Len(Only(wire, "release"))
    /\ Len(Only(wire, "release")) <= Len(Only(wire, "open"))
    /\ Len(Only(wire, "open")) <= 1
    /\ spc # "signing" => capOpen = 0

\* the backend sign call failed and the capability was released
C15_Witness ==
    exc = "BackendError" /\ Has("open") /\ Has("release") /\ capOpen = 0

\* C16: SIGKEY with one argument sets keygrip to it and leaves digest and
\* algo; SETHASH with two arguments sets algo to the first and digest to
\* the second and leaves keygrip; GETINFO and AGENT_ID change no field.
C16_CommandsChangeOnlyTheirFields ==
    [][ (nread' = nread + 1 /\ spc' = "handle")
            => LET line == wire'[1].data
                   b == Branch(line)
               IN  /\ b = "sigkey"
                         => /\ Len(args(line)) = 1
                            /\ keygrip' = args(line)[1]
                            /\ digest' = digest
                            /\ algo' = algo
                   /\ b = "sethash"
                         => /\ Len(args(line)) = 2
                            /\ algo' = args(line)[1]
                            /\ digest' = args(line)[2]
                            /\ keygrip' = keygrip
                   /\ b \in {"getinfo", "agent_id"} => session' = session
      ]_vars

\* 'SIGKEY cd' was processed as the third command with the digest 00ff
\* staged before it
C16_Witness ==
    /\ CycleOf("sigkey")
    /\ spc = "handle"
    /\ nread = 3
    /\ keygrip = HexCd
    /\ digest = Hex00ff
    /\ algo = ALGO_8

\* C17: after an unrecognized command ended a session the server loop
\* does not terminate: the connection is closed and the server is back
\* at accept, where it greets and serves the next connection.
C17_UnknownCommandKeepsServing ==
    /\ [](CycleOf("unknown")
            => /\ ~connOpen
               /\ sockOpen
               /\ spc = "accept"
               /\ exc = "none"
               /\ pending > 0 => ENABLED Accept)
    /\ [][ (CycleOf("unknown") /\ nconn' = nconn + 1)
               => (wire' = Greeting /\ connOpen' /\ spc' = "handle") ]_vars

\* a command was answered on the second connection
C17_Witness == nconn = 2 /\ nread > 0 /\ spc = "handle" /\ exc = "none"

\* C18: a successful PKSIGN leaves keygrip, digest and algo unchanged, so
\* a second PKSIGN right after it opens a new capability and asks for a
\* signature over the same digest.
C18_PksignKeepsStagedState ==
    [][ LET pksignRead == nread' = nread + 1
                          /\ Branch(wire'[1].data) = "pksign"
        IN  /\ (spc = "signing" /\ spc' = "handle") => session' = session
            /\ pksignRead => session' = session
            /\ (CycleOf("pksign") /\ spc = "handle" /\ pksignRead)
                   => /\ spc' = "signing"
                      /\ capOpen' = 1
                      /\ Len(Only(wire', "open")) = 1
                      /\ Only(wire', "sign") = Only(wire, "sign")
      ]_vars

\* two PKSIGN of one session were answered with a signature
C18_Witness == nsigned = 2

\* a SIGKEY line without exactly one argument, or a SETHASH line without
\* exactly two
BadArity(line) ==
    \/ Branch(line) = "sigkey" /\ Len(args(line)) # 1
    \/ Branch(line) = "sethash" /\ Len(args(line)) # 2

\* C19: a SIGKEY line whose argument count is not 1 or a SETHASH line
\* whose argument count is not 2 (pieces of a split on single spaces)
\* aborts the session with a fault: no 'OK' is sent for it, no further
\* line is read, and keygrip, digest and algo are not modified.
C19_WrongArityAborts ==
    /\ []((wire # << >> /\ wire[1].kind = "recv" /\ BadArity(wire[1].data))
            => /\ Sent(wire) = << >>
               /\ exc # "none"
               /\ ~connOpen)
    /\ [][ (nread' = nread + 1 /\ BadArity(wire'[1].data))
               => session' = session ]_vars
    /\ [][ (wire # << >> /\ wire[1].kind = "recv" /\ BadArity(wire[1].data))
               => (nread' = nread /\ wire' = wire) ]_vars

\* 'SETHASH 8  1234' (two spaces) was read with a key staged
C19_Witness ==
    /\ wire # << >>
    /\ wire[1] = EvRecv(Line2(SETHASH, ALGO_8, << >>) \o <<SP>> \o Hex1234)
    /\ exc = "ValueError"
    /\ keygrip # None

----------------------------------------------------------------------------
(* Properties of the wire codec, under CodecSpec. *)

\* what one byte of the original text becomes: '%25', '%0A', '%0D', or
\* the byte itself
EscapedByte(b) ==
    IF b = 37 THEN <<37, 50, 53>>
    ELSE IF b = 10 THEN <<37, 48, 65>>
    ELSE IF b = 13 THEN <<37, 48, 68>>
    ELSE <<b>>

\* a single pass over the original text
RECURSIVE OnePass(_)
OnePass(t) ==
    IF t = << >> THEN << >> ELSE EscapedByte(Head(t)) \o OnePass(Tail(t))

\* C13: serialize returns the result of a single pass over the original
\* text in which '%' becomes '%25', line-feed '%0A', carriage-return '%0D'
\* and every other character is copied; a '%' that a substitution
\* introduced is not escaped again.
C13_EscapeIsOnePass ==
    codec.escaped # None
        => /\ codec.escaped = OnePass(codec.text)
           /\ codec.text = <<37>> => codec.escaped = <<37, 50, 53>>
           /\ codec.text = <<10>> => codec.escaped = <<37, 48, 65>>

\* the text '%\n' was escaped to '%25%0A'
C13_Witness ==
    codec.text = <<37, 10>> /\ codec.escaped = <<37, 50, 53, 37, 48, 65>>

\* the n-byte big-endian encoding of v, for v below 2^32
BigEndian(v, n) ==
    [i \in 1..n |-> IF n - i >= 4 THEN 0 ELSE (v \div (256 ^ (n - i))) % 256]

\* '(7:sig-val(5:ecdsa(1:r32:' 32 zero bytes ')(1:s32:' 32 zero bytes
\* ')))\n'
GoldenZeroSignature ==
    << 40, 55, 58, 115, 105, 103, 45, 118, 97, 108, 40, 53, 58, 101,
       99, 100, 115, 97, 40, 49, 58, 114, 51, 50, 58,
       0, 0, 0, 0, 0, 0, 0, 0, 0, 0, 0, 0, 0, 0, 0, 0, 
       0, 0, 0, 0, 0, 0, 0, 0, 0, 0, 0, 0, 0, 0, 0, 0,
       41, 40, 49, 58, 115, 51, 50, 58,
       0, 0, 0, 0, 0, 0, 0, 0, 0, 0, 0, 0, 0, 0, 0, 0, 
       0, 0, 0, 0, 0, 0, 0, 0, 0, 0, 0, 0, 0, 0, 0, 0,
       41, 41, 41, 10 >>

\* C14: sig_encode(r, s) is '(7:sig-val(5:ecdsa(1:r32:' + the escaped
\* 32-byte big-endian r + ')(1:s32:' + the escaped 32-byte big-endian s +
\* ')))' and a newline; for r = s = 0 it is the golden string with two
\* fields of 32 zero bytes.
C14_SignatureFraming ==
    codec.sig # None
        => /\ codec.sig =
                  <<40, 55, 58, 115, 105, 103, 45, 118, 97, 108, 40, 53, 58,
                    101, 99, 100, 115, 97, 40, 49, 58, 114, 51, 50, 58>>
                  \o OnePass(BigEndian(codec.r, 32))
                  \o <<41, 40, 49, 58, 115, 51, 50, 58>>
                  \o OnePass(BigEndian(codec.s, 32))
                  \o <<41, 41, 41, 10>>
           /\ (codec.r = 0 /\ codec.s = 0)
                  => codec.sig = GoldenZeroSignature

\* a signature with r = 0x25000000 (a '%' byte) and s = 0x0A0A was encoded
C14_Witness == codec.sig # None /\ codec.r = 620756992 /\ codec.s = 2570

\* number of occurrences of byte b in d
Occurrences(d, b) == Cardinality({i \in 1..Len(d) : d[i] = b})

\* no raw line-feed or carriage-return in e, and every '%' in e begins
\* '%25', '%0A' or '%0D'
WellEscaped(e) ==
    /\ Occurrences(e, 10) = 0
    /\ Occurrences(e, 13) = 0
    /\ \A i \in 1..Len(e) :
           e[i] = 37
               => /\ i + 2 <= Len(e)
                  /\ <<e[i+1], e[i+2]>> \in {<<50, 53>>, <<48, 65>>, <<48, 68>>}

\* C20: the data line of PKSIGN has exactly one line-feed, at its very
\* end, and no carriage-return; the output of serialize has no raw
\* line-feed or carriage-return and every '%' in it is followed by '25',
\* '0A' or '0D'.
C20_DataLineIsOneLine ==
    /\ codec.escaped # None => WellEscaped(codec.escaped)
    /\ codec.sig # None
           => LET line == DataLine(codec.sig)
              IN  /\ Occurrences(line, 10) = 1
                  /\ line[Len(line)] = 10
                  /\ Occurrences(line, 13) = 0

\* a signature whose s has two line-feed bytes (0x0A0A) and whose r has a
\* carriage-return was encoded
C20_Witness == codec.sig # None /\ codec.r = 9485 /\ codec.s = 2570

====
